---- MODULE Spec2Model ----
(***************************************************************************)
(* FreeFlies: capture-and-transcribe coordination pipeline.                *)
(*                                                                         *)
(*   MeetBot        src/src/bot/meet_bot.py         (SessionController)    *)
(*   AudioRecorder  src/src/recording/audio_recorder.py (AudioCaptureQueue)*)
(*   Transcriber    src/src/transcription/transcriber.py                   *)
(*   app.py         start_recording / stop_recording /                     *)
(*                  background_transcription  (PipelineOrchestrator)       *)
(*                                                                         *)
(* Threads: the foreground script thread (fgpc), the recording worker with *)
(* the PortAudio callback of its stream (worker), and one background       *)
(* transcription thread per successful start (thr).  The wait on the       *)
(* transcription thread, join(timeout=15), returns either because the      *)
(* thread ended or because the timeout elapsed.  The recording worker      *)
(* polls is_recording every 0.1 s, so the join(timeout=5.0) on it is taken *)
(* to return with the worker ended; a callback in progress completes       *)
(* before the stream is closed, so one callback is one step.               *)
(***************************************************************************)
EXTENDS Integers, Sequences, FiniteSets, TLC

\* ---------------------------------------------------------------- bounds
MaxStarts == 2        \* start_recording calls explored
MaxChunks == 2        \* audio blocks accepted by the callback, in total
MaxBotCalls == 3      \* MeetBot calls explored when the bot is driven directly
MaxRecCalls == 4      \* AudioRecorder operations when it is driven directly
MaxTrCalls == 3       \* Transcriber calls when it is driven directly

\* ------------------------------------------------------ program constants
chunk_duration == 5             \* AudioRecorder.chunk_duration (seconds)
TranscribeChunkArity == 1       \* def transcribe_chunk(self, audio_chunk)

None == 0                       \* Optional[...] = None (threads, start_time)

Sessions == 1..MaxStarts

VARIABLES
    \* MeetBot
    bot,                    \* [is_joined, page, browser]
    \* AudioRecorder
    is_recording, start_time, audio_queue, audio_data, chunk_counter,
    recording_thread, disk,
    worker,                 \* _recording_worker thread and its stream
    \* st.session_state and the module global of app.py
    recording_active, transcription_active, transcription, meeting_history,
    transcription_thread,
    current_summary,        \* st.session_state.current_summary
    thr,                    \* background_transcription threads
    \* foreground call in progress and its locals
    fgpc, l_start_time, l_audio_file,
    now,                    \* time.time()
    \* history variables (observation only)
    startCalls, stopCalls, nextChunk, enqSinceStart, meta, transcribed,
    enqAtStop, timedOut, stopTrace, leftWhileRunning, lastCall, lastResult,
    pre,                    \* what start_recording found when it was entered
    lastJoin,               \* result of the join_meeting of the last start
    \* MeetBot driven directly: the last call (botOp), the call before it
    \* (botPrev), what the browser did during it (botEnv), the automation
    \* calls it made (botCalls), its result (botRet), calls so far (botN)
    botCalls, botOp, botPrev, botEnv, botRet, botN,
    \* Transcriber: [pipeline, processor, model, is_loading, is_loaded]
    \* and the position of its load_worker thread (loader)
    tr,
    \* AudioRecorder or Transcriber driven directly: the last operation
    \* (op), what it met (arg), what came of it (ret; <<>> for None),
    \* operations so far (n), whether Transcriber.cleanup() has returned
    \* (cleaned), how often the pipeline was loaded (loads)
    unitCall

botVars  == <<bot>>
recVars  == <<is_recording, start_time, audio_queue, audio_data,
              chunk_counter, recording_thread, disk>>
devVars  == <<worker>>
appVars  == <<recording_active, transcription_active, transcription,
              meeting_history, transcription_thread>>
fgVars   == <<fgpc, l_start_time, l_audio_file>>
obsVars  == <<startCalls, stopCalls, nextChunk, enqSinceStart, meta,
              transcribed, enqAtStop, timedOut, stopTrace,
              leftWhileRunning, lastCall, lastResult>>
callObs  == <<pre, lastJoin>>
botObs   == <<botCalls, botOp, botPrev, botEnv, botRet, botN>>
unitObs  == <<tr, unitCall>>
vars == <<botVars, recVars, devVars, appVars, current_summary, thr, fgVars,
          now, obsVars, callObs, botObs, unitObs>>

Range(s) == {s[i] : i \in DOMAIN s}

\* ================================================================ MeetBot

\* The automation calls MeetBot.cleanup makes: page.close() if a page is
\* held, browser.stop() if a browser is held.
cleanup_calls(b) ==
    (IF b.page THEN <<"page.close">> ELSE <<>>)
        \o (IF b.browser THEN <<"browser.stop">> ELSE <<>>)

\* A cleanup that closes the page and stops the browser but keeps the
\* references.
MeetBot_cleanup_keeping_refs(b) == b

\* MeetBot.cleanup: close the page, stop the browser, drop both references.
MeetBot_cleanup(b) == [b EXCEPT !.page = FALSE, !.browser = FALSE]

\* What the browser and the remote pages do during one join attempt:
\*   browser_ok       cdp_driver.start_async and grant_permissions succeed
\*   page_ok          browser.get(GOOGLE_URL) succeeds
\*   logged_in        the page shows a meet.google.com URL before any login
\*   login_ok         the steps of _login do not raise
\*   logged_in_after  the page shows a meet.google.com URL after _login
\*   nav_ok           page.get(meet_url) succeeds
\*   click_ok         the join button is found and clicked
\*   wait_ok          the "Leave call" button shows up within 180 s
JoinOutcomes ==
    [browser_ok : BOOLEAN, page_ok : BOOLEAN, logged_in : BOOLEAN,
     login_ok : BOOLEAN, logged_in_after : BOOLEAN, nav_ok : BOOLEAN,
     click_ok : BOOLEAN, wait_ok : BOOLEAN]

NoEnv == [browser_ok |-> TRUE, page_ok |-> TRUE, logged_in |-> TRUE,
          login_ok |-> TRUE, logged_in_after |-> TRUE, nav_ok |-> TRUE,
          click_ok |-> TRUE, wait_ok |-> TRUE]

\* The result of a coroutine of MeetBot: the bot it leaves, whether it
\* raised, and the automation calls it made.
Ran(b, raised, calls) == [bot |-> b, raised |-> raised, calls |-> calls]

\* _setup_browser with _login called whether or not the session is
\* already authenticated.
login_always(b, e, calls) ==
    IF ~e.login_ok
    THEN Ran(b, TRUE, calls \o <<"login">>)
    ELSE Ran(b, ~(e.logged_in \/ e.logged_in_after), calls \o <<"login">>)

\* _setup_browser l.67-70: _login() runs only if _is_logged_in() is False;
\* then _is_logged_in() is asserted.
login_if_needed(b, e, calls) ==
    IF e.logged_in
    THEN Ran(b, FALSE, calls)
    ELSE IF ~e.login_ok
         THEN Ran(b, TRUE, calls \o <<"login">>)
         ELSE Ran(b, ~e.logged_in_after, calls \o <<"login">>)

\* MeetBot._setup_browser l.53-70
setup_browser(b, e) ==
    IF ~e.browser_ok
    THEN Ran(b, TRUE, <<"start_browser">>)
    ELSE IF ~e.page_ok
         THEN Ran([b EXCEPT !.browser = TRUE], TRUE,
                  <<"start_browser", "open_login_page">>)
         ELSE login_if_needed([b EXCEPT !.browser = TRUE, !.page = TRUE], e,
                              <<"start_browser", "open_login_page">>)

\* _join_meeting_async l.116-141 with a page in hand: navigate to the
\* meeting, click the join button, wait for the in-call indicator.
enter_meeting(b, e, calls) ==
    IF ~e.nav_ok
    THEN Ran(b, TRUE, calls \o <<"navigate">>)
    ELSE IF ~e.click_ok
         THEN Ran(b, TRUE, calls \o <<"navigate", "click_join">>)
         ELSE Ran(b, ~e.wait_ok,
                  calls \o <<"navigate", "click_join", "wait_for_leave">>)

\* MeetBot._join_meeting_async l.112-141: the browser is set up only when
\* no page is held.
join_meeting_async(b, e) ==
    IF ~b.page
    THEN LET s == setup_browser(b, e) IN
           IF s.raised THEN s ELSE enter_meeting(s.bot, e, s.calls)
    ELSE enter_meeting(b, e, <<>>)

\* MeetBot.join_meeting l.25-35: is_joined is set on success; on an
\* exception cleanup runs and False is returned.
join_meeting(b, e) ==
    LET r == join_meeting_async(b, e) IN
      IF ~r.raised
      THEN [bot |-> [r.bot EXCEPT !.is_joined = TRUE], ret |-> TRUE,
            calls |-> r.calls]
      ELSE [bot |-> MeetBot_cleanup(r.bot), ret |-> FALSE,
            calls |-> r.calls \o cleanup_calls(r.bot)]

\* Outcomes of the in-call leave action (select + click of the button).
LeaveOutcomes == {"ok", "click_fail"}

\* leave_meeting without its except clause: a failed leave raises.
leave_meeting_unguarded(b, outcome) ==
    IF ~b.page
    THEN [bot |-> b, ret |-> "raise", calls |-> <<>>]
    ELSE IF outcome = "click_fail"
         THEN [bot |-> b, ret |-> "raise", calls |-> <<"click_leave">>]
         ELSE [bot |-> [MeetBot_cleanup(b) EXCEPT !.is_joined = FALSE],
               ret |-> "True",
               calls |-> <<"click_leave">> \o cleanup_calls(b)]

\* leave_meeting that clicks without the assertion on the page.
leave_meeting_unasserted(b, outcome) ==
    IF outcome = "click_fail" \/ ~b.page
    THEN [bot |-> b, ret |-> "False", calls |-> <<"click_leave">>]
    ELSE [bot |-> [MeetBot_cleanup(b) EXCEPT !.is_joined = FALSE],
          ret |-> "True", calls |-> <<"click_leave">> \o cleanup_calls(b)]

\* MeetBot.leave_meeting with _leave_meeting_async.  ret is "True", "False"
\* or "raise" (an exception leaving leave_meeting): the assertion on the
\* page or a failing select/click raises inside, before cleanup and before
\* is_joined is cleared, and the except clause turns that into False.
leave_meeting(b, outcome) ==
    IF ~b.page
    THEN [bot |-> b, ret |-> "False", calls |-> <<>>]
    ELSE IF outcome = "click_fail"
         THEN [bot |-> b, ret |-> "False", calls |-> <<"click_leave">>]
         ELSE [bot |-> [MeetBot_cleanup(b) EXCEPT !.is_joined = FALSE],
               ret |-> "True",
               calls |-> <<"click_leave">> \o cleanup_calls(b)]

\* ========================================================== AudioRecorder

\* A get that reads the head and leaves it on the queue.
get_nowait_peek(q) == q

\* Queue.get_nowait: the queue left behind after the head was taken.
get_nowait(q) == Tail(q)

\* stop_recording without its except clause: a failure raises.
stop_recording_result_unguarded(has_data, written) ==
    IF ~has_data \/ ~written THEN "raise" ELSE "path"

\* What AudioRecorder.stop_recording returns after the worker was joined:
\* "None" from the except clause when nothing was accumulated or sf.write
\* raised, else the path of the written file.
stop_recording_result(has_data, written) ==
    IF ~has_data \/ ~written THEN "None" ELSE "path"

\* A callback that accepts the block whether or not is_recording is set.
audio_callback_unguarded(recording, q, data, block) ==
    [queue |-> Append(q, block), data |-> Append(data, block)]

\* AudioRecorder._audio_callback l.37-45: nothing happens while
\* is_recording is False; otherwise the block is put on the queue (a
\* Queue() without maxsize, so put() returns at once however many chunks
\* are pending) and appended to audio_data.
audio_callback(recording, q, data, block) ==
    IF ~recording
    THEN [queue |-> q, data |-> data]
    ELSE [queue |-> Append(q, block), data |-> Append(data, block)]

\* AudioRecorder.get_recording_duration l.149, at time t
get_recording_duration(st, t) == IF st # None THEN t - st ELSE 0

\* AudioRecorder.is_queue_empty
is_queue_empty == Len(audio_queue) = 0

\* time_offset computed by get_audio_chunk
time_offset(counter) == counter * chunk_duration

\* A get_audio_chunk that advances the counter before it looks at the
\* queue.
get_audio_chunk_counting_polls(q, counter) ==
    IF q = <<>>
    THEN [ret |-> <<>>, queue |-> q, counter |-> counter + 1]
    ELSE [ret |-> <<Head(q), time_offset(counter)>>,
          queue |-> get_nowait(q), counter |-> counter + 1]

\* AudioRecorder.get_audio_chunk l.136-146 run by one caller: on an empty
\* queue get_nowait() raises Empty and None (<<>>) is returned from the
\* except clause; otherwise the head is taken, the offset computed, the
\* counter advanced and (audio_chunk, time_offset) returned.
get_audio_chunk(q, counter) ==
    IF q = <<>>
    THEN [ret |-> <<>>, queue |-> q, counter |-> counter]
    ELSE [ret |-> <<Head(q), time_offset(counter)>>,
          queue |-> get_nowait(q), counter |-> counter + 1]

\* ============================================================ Transcriber

\* The call st.session_state.transcriber.transcribe_chunk(*args) as Python
\* evaluates it: binding the arguments to def transcribe_chunk(self,
\* audio_chunk) raises TypeError when the count differs; otherwise the body
\* runs and returns None or the transcribed text.
transcribe_chunk(args) ==
    IF Len(args) # TranscribeChunkArity THEN "TypeError" ELSE "text"

\* A Transcriber as the class attributes l.37-42 leave it, no
\* load_worker thread started.
NewTranscriber ==
    [pipeline |-> FALSE, processor |-> FALSE, model |-> FALSE,
     is_loading |-> FALSE, is_loaded |-> FALSE, loader |-> "none"]

\* What a chunk holds: all-zero samples, or samples with speech in them.
Contents == {"silence", "speech"}

\* What the ASR pipeline does when it is invoked: it returns text, it
\* returns blank or repetitive text, or it raises.
AsrOutcomes == {"text", "blank", "raise"}

\* The body of Transcriber.transcribe_chunk l.238-305 on a 5 s chunk:
\* None (l.240) unless the pipeline is there and is_loaded; None for a
\* chunk without voice activity (l.254-256: the RMS energy of all-zero
\* samples is 0, below VAD_ENERGY_THRESHOLD); else the pipeline is
\* invoked (l.270) and its text returned, or None when the text is empty
\* or filtered (l.288-295) or when the pipeline raised (l.303-305).
transcribe_chunk_body(trs, content, outcome) ==
    IF ~trs.pipeline \/ ~trs.is_loaded
    THEN [ret |-> "None", asr |-> FALSE]
    ELSE IF content = "silence"
         THEN [ret |-> "None", asr |-> FALSE]
         ELSE [ret |-> IF outcome = "text" THEN "text" ELSE "None",
               asr |-> TRUE]

\* The steps of load_worker l.59-84, in program order.
LoadPcs == {"pipeline", "processor", "model", "to_device", "finally"}

\* One step of load_worker at its position trs.loader; ok says whether
\* the library call of the step succeeded.  An exception goes to the
\* finally block.
load_worker(trs, ok) ==
    IF ~ok /\ trs.loader # "finally"
    THEN [trs EXCEPT !.loader = "finally"]
    ELSE CASE trs.loader = "pipeline" ->
                [trs EXCEPT !.pipeline = TRUE, !.loader = "processor"]
           [] trs.loader = "processor" ->
                [trs EXCEPT !.processor = TRUE, !.loader = "model"]
           [] trs.loader = "model" ->
                [trs EXCEPT !.model = TRUE, !.loader = "to_device"]
           [] trs.loader = "to_device" ->
                [trs EXCEPT !.is_loaded = TRUE, !.loader = "finally"]
           [] trs.loader = "finally" ->
                [trs EXCEPT !.is_loading = FALSE, !.loader = "done"]

\* Transcriber.cleanup l.338-354
Transcriber_cleanup(trs) ==
    [trs EXCEPT !.pipeline = FALSE, !.model = FALSE, !.processor = FALSE,
                !.is_loaded = FALSE]

\* ============================================================== app.py

\* stop_recording with the wait placed before the leave.
stop_recording_order_wait_first == <<"recorder_stop", "wait", "leave", "seal">>

\* The statements of app.stop_recording after recording_active = False, in
\* program order: audio_recorder.stop_recording() (l.148),
\* meet_bot.leave_meeting() (l.149), the wait on transcription_thread
\* (l.152-154), the append to meeting_history (l.157-163).
stop_recording_order == <<"recorder_stop", "leave", "wait", "seal">>

\* The statement that follows statement s of stop_recording.
stop_next(s) ==
    LET i == CHOOSE j \in DOMAIN stop_recording_order :
                 stop_recording_order[j] = s
    IN stop_recording_order[i + 1]

\* start_recording that goes on to the recorder whatever join_meeting said.
start_after_join_unchecked(joined) == "start_rec"

\* start_recording l.77-82: a failed join returns False, a successful one
\* goes on to the recorder.
start_after_join(joined) == IF joined THEN "start_rec" ELSE "idle"

\* A loop that tests nothing: while True.
loop_condition_always(active, queue_empty) == TRUE

\* background_transcription l.112-115: the condition of the while loop.
loop_condition(active, queue_empty) == active \/ ~queue_empty

\* The body of the loop of background_transcription for one dequeued
\* chunk, l.122-137, with the transcriber in state trs: the call as
\* written at l.123; an exception ends the loop through l.133-137; a None
\* result goes on to the next chunk (l.126-127); a text is added to the
\* segment list (l.129) and the loop goes on.
background_iteration(args, trs, content, outcome) ==
    IF transcribe_chunk(args) = "TypeError"
    THEN [ret |-> "TypeError", asr |-> FALSE, next |-> "done",
          segments |-> 0]
    ELSE LET r == transcribe_chunk_body(trs, content, outcome) IN
           [ret |-> r.ret, asr |-> r.asr, next |-> "loop",
            segments |-> IF r.ret = "text" THEN 1 ELSE 0]

\* No operation made yet on a component driven directly.
NoCall == [op |-> "none", arg |-> <<>>, ret |-> <<>>, n |-> 0,
           cleaned |-> FALSE, loads |-> 0]

\* unitCall after one more operation op that met arg and gave ret.
Called(op, arg, ret) ==
    [unitCall EXCEPT !.op = op, !.arg = arg, !.ret = ret, !.n = @ + 1]

\* meeting_history = [meeting_data]: only the latest meeting is kept.
history_overwrite(history, meeting_data) == <<meeting_data>>

\* meeting_history.append(meeting_data)
history_append(history, meeting_data) == Append(history, meeting_data)

StopPcs == {"recorder_stop", "recorder_save", "leave", "wait", "seal"}

\* Thread.is_alive() of a transcription thread handle
Alive(t) == t # None /\ thr[t].pc \notin {"none", "done"}
\* Thread.is_alive() of the recording worker
WorkerAlive == worker \in {"starting", "running"}

NoLocals == [pc |-> "none", chunk |-> 0, offset |-> 0]

\* No start_recording call in progress.
NoPre == [transcription |-> <<>>, current_summary |-> None,
          recording_active |-> FALSE]

Init ==
    /\ bot = [is_joined |-> FALSE, page |-> FALSE, browser |-> FALSE]
    /\ is_recording = FALSE /\ start_time = None
    /\ audio_queue = <<>> /\ audio_data = <<>> /\ chunk_counter = 0
    /\ recording_thread = None /\ disk = <<>>
    /\ worker = "none"
    /\ recording_active = FALSE /\ transcription_active = FALSE
    /\ transcription = <<>> /\ meeting_history = <<>>
    /\ transcription_thread = None
    /\ thr = [s \in Sessions |-> NoLocals]
    /\ fgpc = "idle" /\ l_start_time = None /\ l_audio_file = FALSE
    /\ now = 1
    /\ startCalls = 0 /\ stopCalls = 0 /\ nextChunk = 0
    /\ enqSinceStart = 0 /\ meta = <<>>
    /\ transcribed = <<>> /\ enqAtStop = {} /\ timedOut = FALSE
    /\ stopTrace = <<>> /\ leftWhileRunning = FALSE
    /\ lastCall = "none" /\ lastResult = FALSE
    /\ current_summary = None
    /\ pre = NoPre /\ lastJoin = "none"
    /\ botCalls = <<>> /\ botOp = "none" /\ botPrev = "none"
    /\ botEnv = NoEnv /\ botRet = FALSE /\ botN = 0
    /\ tr = NewTranscriber
    /\ unitCall = NoCall

\* ---------------------------------------------- app.start_recording

\* start_recording l.72-73: the running segment list and the summary are
\* reset on entry.  (current_summary is only ever set by the Summarize
\* button, which main() l.252-266 renders when the segment list is
\* non-empty.)
StartEntry ==
    /\ fgpc = "idle" /\ startCalls < MaxStarts
    /\ fgpc' = "start_join"
    /\ pre' = [transcription |-> transcription,
               current_summary |-> current_summary,
               recording_active |-> recording_active]
    /\ lastJoin' = "none"
    /\ transcription' = <<>>
    /\ current_summary' = None
    /\ startCalls' = startCalls + 1
    /\ now' = now + 1
    /\ lastCall' = "start"
    /\ UNCHANGED <<botVars, recVars, devVars, recording_active,
                   transcription_active, meeting_history,
                   transcription_thread, thr, l_start_time, l_audio_file,
                   stopCalls, nextChunk, enqSinceStart, meta, transcribed,
                   enqAtStop, timedOut, stopTrace, leftWhileRunning,
                   lastResult, botObs, unitObs>>

\* main() l.199-219: the Start button is offered only while
\* recording_active is False.
StartBegin == ~recording_active /\ StartEntry

\* start_recording called while recording_active is True: the function
\* itself tests nothing on entry; only main() withholds the button.
StartWhileOpen == recording_active /\ StartEntry

\* start_recording l.77-80: meet_bot.join_meeting(meet_url)
StartJoin ==
    /\ fgpc = "start_join"
    /\ \E outcome \in JoinOutcomes :
         LET r == join_meeting(bot, outcome) IN
           /\ bot' = r.bot
           /\ lastJoin' = IF r.ret THEN "ok" ELSE "fail"
           /\ fgpc' = start_after_join(r.ret)
           /\ IF fgpc' = "idle"
              THEN lastResult' = FALSE /\ pre' = NoPre
              ELSE UNCHANGED <<lastResult, pre>>
    /\ UNCHANGED <<current_summary, botObs, unitObs>>
    /\ UNCHANGED <<recVars, devVars, appVars, thr, l_start_time,
                   l_audio_file, now, startCalls, stopCalls, nextChunk,
                   enqSinceStart, meta, transcribed, enqAtStop, timedOut,
                   stopTrace, leftWhileRunning, lastCall>>

\* start_recording l.85-100: audio_recorder.start_recording(); on success
\* recording_active = True and the transcription thread is started.
\* AudioRecorder.start_recording (l.73-94) fails when is_recording is
\* already set, or when Thread.start() raises (spawned = FALSE) after the
\* fields were set.
StartRec ==
    /\ fgpc = "start_rec"
    /\ fgpc' = "idle"
    /\ pre' = NoPre
    /\ UNCHANGED <<current_summary, lastJoin, botObs, unitObs>>
    /\ \E spawned \in BOOLEAN :
         IF is_recording
         THEN /\ lastResult' = FALSE
              /\ UNCHANGED <<recVars, devVars, appVars, thr, enqSinceStart>>
         ELSE /\ is_recording' = TRUE
              /\ start_time' = now
              /\ chunk_counter' = 0
              /\ enqSinceStart' = 0
              /\ recording_thread' = startCalls
              /\ UNCHANGED <<audio_queue, audio_data, disk>>
              /\ IF spawned
                 THEN /\ worker' = "starting"
                      /\ recording_active' = TRUE
                      /\ transcription_thread' = startCalls
                      /\ thr' = [thr EXCEPT ![startCalls].pc = "begin"]
                      /\ lastResult' = TRUE
                      /\ UNCHANGED <<transcription_active, transcription,
                                     meeting_history>>
                 ELSE /\ lastResult' = FALSE
                      /\ UNCHANGED <<worker, appVars, thr>>
    /\ UNCHANGED <<botVars, l_start_time, l_audio_file, now, startCalls,
                   stopCalls, nextChunk, meta, transcribed, enqAtStop,
                   timedOut, stopTrace, leftWhileRunning, lastCall>>

\* ----------------------------------------------- app.stop_recording

\* stop_recording l.145-146, whatever recording_active was on entry.
StopEntry ==
    /\ UNCHANGED <<current_summary, callObs, botObs, unitObs>>
    /\ fgpc = "idle" /\ stopCalls < MaxStarts
    /\ recording_active' = FALSE
    /\ l_start_time' = start_time
    /\ l_audio_file' = FALSE
    /\ fgpc' = stop_recording_order[1]
    /\ stopCalls' = stopCalls + 1
    /\ now' = now + 1
    /\ enqAtStop' = {c \in 1..nextChunk : meta[c].sess = startCalls}
    /\ timedOut' = FALSE
    /\ stopTrace' = <<>>
    /\ leftWhileRunning' = FALSE
    /\ lastCall' = "stop"
    /\ UNCHANGED <<botVars, recVars, devVars, transcription_active,
                   transcription, meeting_history, transcription_thread,
                   thr, startCalls, nextChunk, enqSinceStart, meta,
                   transcribed, lastResult>>

\* main(): the Stop button is offered only while recording_active is True.
StopBegin == recording_active /\ StopEntry

\* stop_recording called while recording_active is False: the function
\* itself tests nothing on entry; only main() withholds the button.
StopWhileClosed == ~recording_active /\ StopEntry

\* AudioRecorder.stop_recording l.99-104.  With no active recording the
\* exception is caught at l.129 and None is returned.
RecorderStop ==
    /\ UNCHANGED <<current_summary, callObs, botObs, unitObs>>
    /\ fgpc = "recorder_stop"
    /\ stopTrace' = Append(stopTrace, "recorder_stop")
    /\ IF ~is_recording
       THEN /\ fgpc' = stop_next("recorder_stop")
            /\ UNCHANGED <<is_recording, start_time>>
       ELSE /\ is_recording' = FALSE
            /\ start_time' = None
            /\ fgpc' = "recorder_save"
    /\ UNCHANGED <<botVars, audio_queue, audio_data, chunk_counter,
                   recording_thread, disk, devVars, appVars, thr,
                   l_start_time, l_audio_file, now, startCalls, stopCalls,
                   nextChunk, enqSinceStart, meta, transcribed, enqAtStop,
                   timedOut, leftWhileRunning, lastCall, lastResult>>

\* AudioRecorder.cleanup l.155-159
AudioRecorder_cleanup ==
    /\ audio_data' = <<>>
    /\ chunk_counter' = 0
    /\ audio_queue' = <<>>

\* The return of stop_recording: True at l.166, False from the handler at
\* l.168-170.
StopReturn(ok) ==
    /\ fgpc' = "idle"
    /\ lastResult' = ok

\* AudioRecorder.stop_recording l.106-131: the worker is joined; then,
\* with nothing accumulated, or when sf.write raises (written = FALSE),
\* the exception is caught and None is returned; otherwise the file is
\* written, cleanup runs and the path is returned.
RecorderSave ==
    /\ UNCHANGED <<current_summary, callObs, botObs, unitObs>>
    /\ fgpc = "recorder_save"
    /\ ~WorkerAlive
    /\ \E written \in BOOLEAN :
         LET res == stop_recording_result(audio_data # <<>>, written) IN
           /\ IF res = "path"
              THEN /\ disk' = audio_data
                   /\ AudioRecorder_cleanup
              ELSE UNCHANGED <<audio_data, chunk_counter, audio_queue, disk>>
           /\ l_audio_file' = (res = "path")
           /\ IF res = "raise"
              THEN StopReturn(FALSE)
              ELSE /\ fgpc' = stop_next("recorder_stop")
                   /\ UNCHANGED lastResult
    /\ UNCHANGED <<botVars, is_recording, start_time, recording_thread,
                   devVars, appVars, thr, l_start_time, now, startCalls,
                   stopCalls, nextChunk, enqSinceStart, meta, transcribed,
                   enqAtStop, timedOut, stopTrace, leftWhileRunning,
                   lastCall>>

\* stop_recording l.149: meet_bot.leave_meeting()
StopLeave ==
    /\ UNCHANGED <<current_summary, callObs, botObs, unitObs>>
    /\ fgpc = "leave"
    /\ stopTrace' = Append(stopTrace, "leave")
    /\ leftWhileRunning' = Alive(transcription_thread)
    /\ \E outcome \in LeaveOutcomes :
         LET r == leave_meeting(bot, outcome) IN
           /\ bot' = r.bot
           /\ IF r.ret = "raise"
              THEN StopReturn(FALSE)
              ELSE fgpc' = stop_next("leave") /\ UNCHANGED lastResult
    /\ UNCHANGED <<recVars, devVars, appVars, thr, l_start_time,
                   l_audio_file, now, startCalls, stopCalls, nextChunk,
                   enqSinceStart, meta, transcribed, enqAtStop, timedOut,
                   lastCall>>

\* stop_recording l.152-154: if the thread is alive, join(timeout=15)
\* returns when it has ended or when the timeout elapses, and the handle
\* is dropped.
StopWait ==
    /\ UNCHANGED <<current_summary, callObs, botObs, unitObs>>
    /\ fgpc = "wait"
    /\ fgpc' = stop_next("wait")
    /\ stopTrace' = Append(stopTrace, "wait")
    /\ timedOut' = Alive(transcription_thread)
    /\ transcription_thread' = IF Alive(transcription_thread)
                               THEN None ELSE transcription_thread
    /\ UNCHANGED <<botVars, recVars, devVars, recording_active,
                   transcription_active, transcription, meeting_history,
                   thr, l_start_time, l_audio_file, now, startCalls,
                   stopCalls, nextChunk, enqSinceStart, meta, transcribed,
                   enqAtStop, leftWhileRunning, lastCall, lastResult>>

\* stop_recording l.157-166: the meeting record, with a copy of the
\* running segment list, is appended to the history.
StopSeal ==
    /\ UNCHANGED <<current_summary, callObs, botObs, unitObs>>
    /\ fgpc = "seal"
    /\ stopTrace' = Append(stopTrace, "seal")
    /\ meeting_history' = history_append(meeting_history,
           [start_time |-> l_start_time, end_time |-> now,
            transcription |-> transcription, audio_file |-> l_audio_file])
    /\ StopReturn(TRUE)
    /\ l_start_time' = None /\ l_audio_file' = FALSE
    /\ enqAtStop' = {} /\ timedOut' = FALSE /\ leftWhileRunning' = FALSE
    /\ UNCHANGED <<botVars, recVars, devVars, recording_active,
                   transcription_active, transcription,
                   transcription_thread, thr, now, startCalls, stopCalls,
                   nextChunk, enqSinceStart, meta, transcribed, lastCall>>

\* ------------------------------------ AudioRecorder._recording_worker

\* l.53-60: the input stream is opened; if that raises, l.64-66 clears
\* is_recording.
WorkerOpen ==
    /\ UNCHANGED <<current_summary, callObs, botObs, unitObs>>
    /\ worker = "starting"
    /\ \E opened \in BOOLEAN :
         IF opened
         THEN worker' = "running" /\ UNCHANGED is_recording
         ELSE worker' = "exited" /\ is_recording' = FALSE
    /\ UNCHANGED <<botVars, start_time, audio_queue, audio_data,
                   chunk_counter, recording_thread, disk, appVars, thr,
                   fgVars, now, obsVars>>

\* l.61-62: the loop ends once is_recording is False; leaving the with
\* block closes the stream.
WorkerExit ==
    /\ UNCHANGED <<current_summary, callObs, botObs, unitObs>>
    /\ worker = "running" /\ ~is_recording
    /\ worker' = "exited"
    /\ UNCHANGED <<botVars, recVars, appVars, thr, fgVars, now, obsVars>>

\* -------------------------------------- AudioRecorder._audio_callback

\* l.37-45: a block delivered while is_recording is put on the queue and
\* appended to audio_data.  (A block delivered while is_recording is
\* False changes nothing, l.37-38.)
Callback ==
    /\ UNCHANGED <<current_summary, callObs, botObs, unitObs>>
    /\ worker = "running" /\ is_recording
    /\ nextChunk < MaxChunks
    /\ nextChunk' = nextChunk + 1
    /\ LET r == audio_callback(is_recording, audio_queue, audio_data,
                               nextChunk + 1)
       IN audio_queue' = r.queue /\ audio_data' = r.data
    /\ meta' = Append(meta, [k |-> enqSinceStart, sess |-> startCalls])
    /\ enqSinceStart' = enqSinceStart + 1
    /\ UNCHANGED <<botVars, is_recording, start_time, chunk_counter,
                   recording_thread, disk, devVars, appVars, thr, fgVars,
                   now, startCalls, stopCalls, transcribed, enqAtStop,
                   timedOut, stopTrace, leftWhileRunning, lastCall,
                   lastResult>>

\* ------------------------------------- app.background_transcription

\* l.110
ThrBegin(t) ==
    /\ UNCHANGED <<current_summary, callObs, botObs, unitObs>>
    /\ thr[t].pc = "begin"
    /\ transcription_active' = TRUE
    /\ thr' = [thr EXCEPT ![t].pc = "loop"]
    /\ UNCHANGED <<botVars, recVars, devVars, recording_active,
                   transcription, meeting_history, transcription_thread,
                   fgVars, now, obsVars>>

\* l.112-120 with get_audio_chunk l.139: while the loop condition holds,
\* get_nowait() takes the head of the queue; on Empty the loop sleeps 2 s
\* and tests its condition again.
ThrGet(t) ==
    /\ UNCHANGED <<current_summary, callObs, botObs, unitObs>>
    /\ thr[t].pc = "loop"
    /\ loop_condition(recording_active, is_queue_empty)
    /\ ~is_queue_empty
    /\ thr' = [thr EXCEPT ![t].pc = "got", ![t].chunk = Head(audio_queue)]
    /\ audio_queue' = get_nowait(audio_queue)
    /\ UNCHANGED <<botVars, is_recording, start_time, audio_data,
                   chunk_counter, recording_thread, disk, devVars, appVars,
                   fgVars, now, obsVars>>

\* l.112-115 false, then the finally block l.135-137.
ThrExit(t) ==
    /\ UNCHANGED <<current_summary, callObs, botObs, unitObs>>
    /\ thr[t].pc = "loop"
    /\ ~loop_condition(recording_active, is_queue_empty)
    /\ transcription_active' = FALSE
    /\ thr' = [thr EXCEPT ![t].pc = "done"]
    /\ UNCHANGED <<botVars, recVars, devVars, recording_active,
                   transcription, meeting_history, transcription_thread,
                   fgVars, now, obsVars>>

\* get_audio_chunk l.140-142: the offset is computed from the counter, the
\* counter is advanced, and (audio_chunk, time_offset) is returned.
ThrOffset(t) ==
    /\ UNCHANGED <<current_summary, callObs, botObs, unitObs>>
    /\ thr[t].pc = "got"
    /\ thr' = [thr EXCEPT ![t].pc = "call",
                          ![t].offset = time_offset(chunk_counter)]
    /\ chunk_counter' = chunk_counter + 1
    /\ UNCHANGED <<botVars, is_recording, start_time, audio_queue,
                   audio_data, recording_thread, disk, devVars, appVars,
                   fgVars, now, obsVars>>

\* l.122-137: transcribe_chunk(audio_chunk, time_offset).  An exception
\* is caught at l.133 and ends the loop through the finally block;
\* results are appended to the running segment list.
ThrCall(t) ==
    /\ UNCHANGED <<current_summary, callObs, botObs, unitObs>>
    /\ thr[t].pc = "call"
    /\ transcribed' = Append(transcribed, thr[t].chunk)
    /\ LET res == transcribe_chunk(<<thr[t].chunk, thr[t].offset>>) IN
         IF res = "TypeError"
         THEN /\ thr' = [thr EXCEPT ![t] = [NoLocals EXCEPT !.pc = "done"]]
              /\ transcription_active' = FALSE
              /\ UNCHANGED transcription
         ELSE /\ thr' = [thr EXCEPT ![t] = [NoLocals EXCEPT !.pc = "loop"]]
              /\ transcription' = Append(transcription,
                     [chunk |-> thr[t].chunk, offset |-> thr[t].offset])
              /\ UNCHANGED transcription_active
    /\ UNCHANGED <<botVars, recVars, devVars, recording_active,
                   meeting_history, transcription_thread, fgVars, now,
                   startCalls, stopCalls, nextChunk, enqSinceStart, meta,
                   enqAtStop, timedOut, stopTrace, leftWhileRunning,
                   lastCall, lastResult>>

\* ------------------------------------------------------ specification

Foreground ==
    \/ StartBegin \/ StartJoin \/ StartRec
    \/ StopBegin \/ RecorderStop \/ RecorderSave
    \/ StopLeave \/ StopWait \/ StopSeal

Device == WorkerOpen \/ WorkerExit \/ Callback

Background ==
    \E t \in Sessions :
        ThrBegin(t) \/ ThrGet(t) \/ ThrExit(t) \/ ThrOffset(t) \/ ThrCall(t)

Next == Foreground \/ Device \/ Background

Spec == Init /\ [][Next]_vars

\* A step of the background_transcription thread of start call t.
ThrStep(t) ==
    ThrBegin(t) \/ ThrGet(t) \/ ThrExit(t) \/ ThrOffset(t) \/ ThrCall(t)

\* The app with its threads scheduled: a transcription thread that can
\* take a step eventually takes one (the threads are daemon threads of a
\* running interpreter; every call they make returns).  Nothing is
\* assumed about the user pressing buttons or the device delivering
\* blocks.
LiveSpec == Spec /\ \A t \in Sessions : WF_vars(ThrStep(t))

\* --------------------------------------------- MeetBot driven directly

appSide == <<recVars, devVars, appVars, current_summary, thr, fgVars, now,
             obsVars, callObs, unitObs>>

\* One more call on the bot.
BotCall(op) ==
    /\ botN < MaxBotCalls
    /\ botN' = botN + 1
    /\ botPrev' = botOp
    /\ botOp' = op
    /\ UNCHANGED appSide

\* MeetBot.join_meeting(meet_url)
BotJoin ==
    /\ BotCall("join")
    /\ \E e \in JoinOutcomes :
         LET r == join_meeting(bot, e) IN
           /\ bot' = r.bot
           /\ botCalls' = r.calls
           /\ botRet' = r.ret
           /\ botEnv' = e

\* MeetBot.leave_meeting()
BotLeave ==
    /\ BotCall("leave")
    /\ \E outcome \in LeaveOutcomes :
         LET r == leave_meeting(bot, outcome) IN
           /\ bot' = r.bot
           /\ botCalls' = r.calls
           /\ botRet' = (r.ret = "True")
           /\ botEnv' = NoEnv

\* MeetBot.cleanup()
BotCleanup ==
    /\ BotCall("cleanup")
    /\ botCalls' = cleanup_calls(bot)
    /\ bot' = MeetBot_cleanup(bot)
    /\ botRet' = TRUE
    /\ botEnv' = NoEnv

BotNext == BotJoin \/ BotLeave \/ BotCleanup

BotSpec == Init /\ [][BotNext]_vars

\* start_recording and stop_recording as functions that any caller may
\* call at any time, not only the buttons of main().
ApiNext == Next \/ StartWhileOpen \/ StopWhileClosed

ApiSpec == Init /\ [][ApiNext]_vars

\* --------------------------------------- AudioRecorder driven directly

recSide == <<botVars, botObs, appVars, current_summary, thr, now, callObs,
             tr>>
recHist == <<startCalls, stopCalls, enqSinceStart, meta, transcribed,
             enqAtStop, timedOut, leftWhileRunning, lastCall, lastResult>>

\* AudioRecorder.start_recording l.73-94: fails when is_recording is
\* already set, or when Thread.start() raises (spawned = FALSE) after the
\* fields were set.
RecStart ==
    /\ fgpc = "idle" /\ unitCall.n < MaxRecCalls
    /\ \E spawned \in BOOLEAN :
         IF is_recording
         THEN /\ unitCall' = Called("start", <<>>, <<"False">>)
              /\ UNCHANGED <<recVars, devVars>>
         ELSE /\ is_recording' = TRUE
              /\ start_time' = now
              /\ chunk_counter' = 0
              /\ recording_thread' = unitCall.n + 1
              /\ worker' = IF spawned THEN "starting" ELSE worker
              /\ unitCall' = Called("start", <<>>,
                                    IF spawned THEN <<"True">>
                                               ELSE <<"False">>)
              /\ UNCHANGED <<audio_queue, audio_data, disk>>
    /\ UNCHANGED <<fgVars, nextChunk, stopTrace, recSide, recHist>>

\* AudioRecorder.stop_recording is entered; RecorderStop and RecorderSave
\* are its steps.
RecStopCall ==
    /\ fgpc = "idle" /\ unitCall.n < MaxRecCalls
    /\ unitCall' = Called("stop", <<>>, <<>>)
    /\ fgpc' = "recorder_stop"
    /\ l_audio_file' = FALSE
    /\ stopTrace' = <<>>
    /\ UNCHANGED <<recVars, devVars, l_start_time, nextChunk, recSide,
                   recHist>>

\* AudioRecorder.stop_recording returns the path (l.127) or None (l.131).
RecStopReturn ==
    /\ fgpc = stop_next("recorder_stop")
    /\ fgpc' = "idle"
    /\ unitCall' = [unitCall EXCEPT
                      !.ret = IF l_audio_file THEN <<"path">> ELSE <<>>]
    /\ UNCHANGED <<recVars, devVars, l_start_time, l_audio_file, nextChunk,
                   stopTrace, recSide, recHist>>

\* The stream delivers a block to _audio_callback: it does so as long as
\* the stream is open, whether or not is_recording is still set.
RecCallback ==
    /\ worker = "running" /\ nextChunk < MaxChunks
    /\ unitCall.n < MaxRecCalls
    /\ unitCall' = Called("callback", <<is_recording>>, <<>>)
    /\ nextChunk' = nextChunk + 1
    /\ LET r == audio_callback(is_recording, audio_queue, audio_data,
                               nextChunk + 1)
       IN audio_queue' = r.queue /\ audio_data' = r.data
    /\ UNCHANGED <<is_recording, start_time, chunk_counter,
                   recording_thread, disk, devVars, fgVars, stopTrace,
                   recSide, recHist>>

\* AudioRecorder.get_audio_chunk()
RecGet ==
    /\ unitCall.n < MaxRecCalls
    /\ LET r == get_audio_chunk(audio_queue, chunk_counter) IN
         /\ audio_queue' = r.queue
         /\ chunk_counter' = r.counter
         /\ unitCall' = Called("get", <<>>, r.ret)
    /\ UNCHANGED <<is_recording, start_time, audio_data, recording_thread,
                   disk, devVars, fgVars, nextChunk, stopTrace, recSide,
                   recHist>>

RecNext ==
    \/ RecStart \/ RecStopCall \/ RecorderStop \/ RecorderSave
    \/ RecStopReturn \/ WorkerOpen \/ WorkerExit \/ RecCallback \/ RecGet

RecSpec == Init /\ [][RecNext]_vars

\* ----------------------------------------- Transcriber driven directly

trSide == <<botVars, botObs, recVars, devVars, appVars, current_summary,
            thr, fgVars, now, obsVars, callObs>>

\* Transcriber() l.47-91: is_loading is set and the load_worker thread is
\* started; if Thread.start() raises (spawned = FALSE), is_loading is
\* cleared again.
TrConstruct ==
    /\ unitCall.n = 0
    /\ unitCall' = Called("init", <<>>, <<>>)
    /\ \E spawned \in BOOLEAN :
         IF spawned
         THEN tr' = [tr EXCEPT !.is_loading = TRUE, !.loader = "pipeline"]
         ELSE tr' = [tr EXCEPT !.is_loading = FALSE]
    /\ UNCHANGED trSide

\* One step of the load_worker thread.
LoadStep ==
    /\ tr.loader \in LoadPcs
    /\ \E ok \in BOOLEAN : tr' = load_worker(tr, ok)
    /\ unitCall' = [unitCall EXCEPT
                      !.loads = IF tr.loader = "pipeline" THEN @ + 1 ELSE @]
    /\ UNCHANGED trSide

\* Transcriber.cleanup()
TrCleanup ==
    /\ unitCall.n > 0 /\ unitCall.n < MaxTrCalls
    /\ tr' = Transcriber_cleanup(tr)
    /\ unitCall' = [Called("cleanup", <<>>, <<>>) EXCEPT !.cleaned = TRUE]
    /\ UNCHANGED trSide

\* background_transcription handles one dequeued chunk: the first chunk
\* of a session, with its offset, passed as app.py l.123 passes it.
TrIteration ==
    /\ unitCall.n > 0 /\ unitCall.n < MaxTrCalls
    /\ \E content \in Contents, outcome \in AsrOutcomes :
         unitCall' =
             Called("iteration",
                    [content |-> content, outcome |-> outcome,
                     ready |-> tr.pipeline /\ tr.is_loaded],
                    background_iteration(<<content, time_offset(0)>>, tr,
                                         content, outcome))
    /\ UNCHANGED <<tr, trSide>>

TrNext == TrConstruct \/ LoadStep \/ TrCleanup \/ TrIteration

TrSpec == Init /\ [][TrNext]_vars

\* ============================================================== claims

\* Chunks handed out by get_audio_chunk: those already passed to
\* transcribe_chunk and those a loop holds between the two calls.
Holding(t) == thr[t].pc \in {"got", "call"}
NoDuplicates(seq) ==
    \A i, j \in DOMAIN seq : i # j => seq[i] # seq[j]

\* C1 (as claimed): when stop_recording reaches the sealing step and the
\* wait on the transcription thread did not time out, every chunk that was
\* enqueued before stop_recording was called has been passed to
\* transcribe_chunk.
C1_DrainGuarantee ==
    (fgpc = "seal" /\ ~timedOut) => enqAtStop \subseteq Range(transcribed)

\* C2 (as claimed): chunks are passed to transcribe_chunk in the order in
\* which the callback enqueued them (chunk ids grow in enqueue order).
C2_TranscribedInEnqueueOrder ==
    \A i, j \in DOMAIN transcribed :
        i < j => transcribed[i] < transcribed[j]

\* C3: no chunk is returned by get_audio_chunk twice: the chunks already
\* transcribed and the chunks held by the loops are pairwise different.
C3_ConsumedAtMostOnce ==
    /\ NoDuplicates(transcribed)
    /\ \A t \in Sessions :
         Holding(t) => thr[t].chunk \notin Range(transcribed)
    /\ \A t, u \in Sessions :
         (t # u /\ Holding(t) /\ Holding(u)) => thr[t].chunk # thr[u].chunk

\* Two loops hold a chunk each at the same time.
C3_Witness ==
    \E t, u \in Sessions : t # u /\ Holding(t) /\ Holding(u)

\* C4 (as claimed): the k-th chunk enqueued since start_recording is
\* returned by get_audio_chunk with time offset k * chunk_duration.
C4_OffsetIsSequenceTimesDuration ==
    \A t \in Sessions :
        thr[t].pc = "call" =>
            thr[t].offset = meta[thr[t].chunk].k * chunk_duration

\* C5 (as claimed): the chunk with sequence k produces segments carrying
\* the offset k * chunk_duration: when the call of transcribe_chunk for
\* that chunk is over, the running segment list holds a segment of the
\* chunk with that offset.
C5_TimeOffsetInjected ==
    [][\A t \in Sessions :
          (thr[t].pc = "call" /\ thr'[t].pc # "call") =>
              \E j \in DOMAIN transcription' :
                  transcription'[j] =
                      [chunk |-> thr[t].chunk,
                       offset |-> meta[thr[t].chunk].k * chunk_duration]]_vars

IsPrefix(a, b) == Len(a) <= Len(b) /\ SubSeq(b, 1, Len(a)) = a

C7_StopAlwaysSeals ==
    /\ Len(meeting_history) =
           stopCalls - (IF fgpc \in StopPcs THEN 1 ELSE 0)
    /\ (fgpc = "idle" /\ lastCall = "stop") =>
           (lastResult /\ ~recording_active)

\* A stop that sealed although no audio file was written, the leave failed
\* (the bot still holds its page) and the transcription thread was
\* abandoned while running.
C7_Witness ==
    /\ fgpc = "idle" /\ lastCall = "stop"
    /\ ~meeting_history[Len(meeting_history)].audio_file
    /\ bot.is_joined /\ bot.page
    /\ \E t \in Sessions : thr[t].pc \notin {"none", "done"}

\* C8: a stop_recording call that has got past its wait, or has returned,
\* has called leave_meeting.
C8_LeaveAlwaysAttempted ==
    (lastCall = "stop" /\ fgpc \in {"seal", "idle"}) =>
        "leave" \in Range(stopTrace)

\* A stop whose capture stop returned no file and whose wait timed out.
C8_Witness ==
    /\ fgpc = "seal" /\ timedOut /\ ~l_audio_file
    /\ "leave" \in Range(stopTrace)

C10_FailedStartLeavesNoConnection ==
    (fgpc = "idle" /\ lastCall = "start" /\ ~lastResult) =>
        (~bot.is_joined /\ ~bot.page /\ ~bot.browser /\ ~recording_active)

\* The controller is Active: joined, with its page.
Active(b) == b.is_joined /\ b.page
Released(b) == ~b.page /\ ~b.browser
Count(x, seq) == Cardinality({i \in DOMAIN seq : seq[i] = x})

C12_StartWhileOpenRejected ==
    [][/\ (fgpc = "idle" /\ fgpc' = "start_join" /\ recording_active) =>
              transcription' = transcription
       /\ (pre.recording_active /\ fgpc \in {"start_join", "start_rec"}
              /\ fgpc' # fgpc) =>
              /\ lastJoin' = "none"
              /\ UNCHANGED <<bot, recVars, devVars, thr,
                             transcription_thread, transcription>>
              /\ (fgpc' = "idle" => ~lastResult')]_vars

\* C13 (as claimed): after a start_recording whose join_meeting failed,
\* the bot is not joined and holds neither page nor browser.
C13_FailedJoinReleasesAll ==
    (fgpc = "idle" /\ lastCall = "start" /\ lastJoin = "fail") =>
        (~bot.is_joined /\ Released(bot))

\* C14 (as claimed): once the leave_meeting of a stop_recording has
\* returned, the bot is not joined and holds neither page nor browser,
\* whether or not the leave button could be clicked.
C14_LeaveAlwaysCleansUp ==
    (lastCall = "stop" /\ "leave" \in Range(stopTrace)) =>
        (~bot.is_joined /\ Released(bot))

C16_JoinOnlyFromIdle ==
    [][(botN' # botN /\ botOp' = "join" /\ bot.is_joined) =>
          /\ "navigate" \notin Range(botCalls')
          /\ "start_browser" \notin Range(botCalls')]_vars

C18_LoginAtMostOnceIfNeeded ==
    botOp = "join" =>
        /\ Count("login", botCalls) <= 1
        /\ "login" \in Range(botCalls) => ~botEnv.logged_in
        /\ ("login" \in Range(botCalls) /\ ~botEnv.logged_in_after) =>
               (~botRet /\ "navigate" \notin Range(botCalls))

\* A join that logged in and then failed the logged-in assertion.
C18_Witness ==
    /\ botOp = "join" /\ "login" \in Range(botCalls)
    /\ botEnv.login_ok /\ ~botEnv.logged_in_after /\ ~botRet

\* The chunks the callback accepted during the session of start call n.
ChunksOf(n) == {c \in 1..nextChunk : meta[c].sess = n}

\* C19 (as claimed): the file written by AudioRecorder.stop_recording
\* holds, in callback order, exactly the chunks the callback accepted
\* since the start_recording of this session.
C19_FileIsAllChunksSinceStart ==
    [][(fgpc = "recorder_save" /\ l_audio_file') =>
          /\ Range(disk') = ChunksOf(startCalls)
          /\ \A i, j \in DOMAIN disk' : i < j => disk'[i] < disk'[j]]_vars

\* C20 (as claimed): when AudioRecorder.stop_recording returns, with a
\* path or with None, the queue and the accumulated samples are empty and
\* the chunk counter is 0.
C20_CleanupAfterEveryStop ==
    [][(fgpc \in {"recorder_stop", "recorder_save"}
          /\ fgpc' \notin {"recorder_stop", "recorder_save"}) =>
          (audio_queue' = <<>> /\ audio_data' = <<>>
             /\ chunk_counter' = 0)]_vars

\* C21 (as claimed): AudioRecorder.stop_recording returns no path when it
\* is called while is_recording is False, and returns no path when the
\* callback accepted no block since the start_recording of this session.
C21_StopFailsWithoutAudio ==
    [][/\ (fgpc = "recorder_stop" /\ ~is_recording) =>
              (fgpc' # "recorder_save" /\ ~l_audio_file')
       /\ (fgpc = "recorder_save" /\ ChunksOf(startCalls) = {}) =>
              ~l_audio_file']_vars

\* C22 (as claimed): when the input stream of a session could not be
\* opened, the start_recording of that session has not returned True and
\* no session is reported as open.  (After a start_recording the worker
\* has ended only if opening the stream failed.)
C22_DeviceFailureFailsStart ==
    (fgpc = "idle" /\ lastCall = "start" /\ worker = "exited") =>
        (~lastResult /\ ~recording_active)

\* C23: a block delivered to _audio_callback while is_recording is False
\* changes neither the queue nor audio_data; a block delivered while it is
\* True is put on the queue and appended to audio_data in the same step,
\* however many chunks are pending; nothing else of the recorder changes.
C23_CallbackNoOpWhenIdle ==
    [][(unitCall'.n # unitCall.n /\ unitCall'.op = "callback") =>
          /\ IF is_recording
             THEN /\ audio_queue' = Append(audio_queue, nextChunk')
                  /\ audio_data' = Append(audio_data, nextChunk')
             ELSE UNCHANGED <<audio_queue, audio_data>>
          /\ UNCHANGED <<is_recording, start_time, chunk_counter,
                         recording_thread, disk>>]_vars

\* The stream delivered a block after stop_recording had cleared
\* is_recording, with a chunk still pending on the queue.
C23_Witness ==
    /\ unitCall.op = "callback" /\ unitCall.arg = <<FALSE>>
    /\ ~is_recording /\ audio_queue # <<>> /\ worker = "running"

\* C24: get_audio_chunk on an empty queue returns None and changes nothing
\* of the recorder, the chunk counter included; on a non-empty queue it
\* returns the head and removes exactly that chunk.
C24_GetChunkNonBlocking ==
    [][(unitCall'.n # unitCall.n /\ unitCall'.op = "get") =>
          IF audio_queue = <<>>
          THEN unitCall'.ret = <<>> /\ UNCHANGED <<recVars, devVars>>
          ELSE /\ Len(unitCall'.ret) = 2
               /\ unitCall'.ret[1] = Head(audio_queue)
               /\ audio_queue' = Tail(audio_queue)
               /\ UNCHANGED <<is_recording, start_time, audio_data,
                              recording_thread, disk, devVars>>]_vars

\* A poll that found the queue empty while recording, after one chunk had
\* been handed out.
C24_Witness ==
    /\ unitCall.op = "get" /\ unitCall.ret = <<>>
    /\ is_recording /\ audio_queue = <<>> /\ chunk_counter = 1

\* C25 (as claimed): get_recording_duration() is 0 whenever is_recording
\* is False, and the time elapsed since start_recording while it is True.
C25_DurationZeroWhenNotCapturing ==
    /\ ~is_recording => get_recording_duration(start_time, now) = 0
    /\ is_recording =>
           get_recording_duration(start_time, now) = now - start_time

\* C26 (as claimed): when the ASR pipeline raises for a chunk with speech,
\* the chunk adds no segment and the loop goes on; a chunk with speech for
\* which the pipeline returns text adds its segment and the loop goes on.
C26_FailureIsolation ==
    (unitCall.op = "iteration" /\ unitCall.arg.ready
        /\ unitCall.arg.content = "speech") =>
        /\ unitCall.arg.outcome = "raise" =>
               (unitCall.ret.segments = 0 /\ unitCall.ret.next = "loop")
        /\ unitCall.arg.outcome = "text" =>
               (unitCall.ret.segments = 1 /\ unitCall.ret.next = "loop")

\* C27 (as claimed): for a chunk of all-zero samples the call of
\* transcribe_chunk raises nothing and returns no text, the ASR pipeline
\* is not invoked, and the loop goes on to the next chunk.
C27_SilenceYieldsNothing ==
    (unitCall.op = "iteration" /\ unitCall.arg.content = "silence") =>
        /\ unitCall.ret.ret = "None" /\ ~unitCall.ret.asr
        /\ unitCall.ret.segments = 0 /\ unitCall.ret.next = "loop"

\* The chunks of the current session among those passed to
\* transcribe_chunk, in call order.
OfSession(c) == meta[c].sess = startCalls

\* C28 (as claimed): the record appended by the stop_recording of a
\* session in which the callback accepted at least one block, and whose
\* file sf.write did write, has its audio file set, an end time after its
\* start time, and a segment list with one segment for each of the
\* session's transcribed chunks, in order.
C28_SealedSessionComplete ==
    [][(fgpc = "seal" /\ fgpc' = "idle" /\ ChunksOf(startCalls) # {}
          /\ l_audio_file) =>
          LET m == meeting_history'[Len(meeting_history')] IN
            /\ m.audio_file
            /\ m.end_time > m.start_time
            /\ [i \in DOMAIN m.transcription |-> m.transcription[i].chunk]
                   = SelectSeq(transcribed, OfSession)]_vars

\* C29 (as claimed): the pipeline is loaded at most once, and once
\* cleanup() has returned the transcriber holds no pipeline, model or
\* processor and is not loaded.
C29_CleanupReleasesForGood ==
    /\ unitCall.loads <= 1
    /\ unitCall.cleaned =>
           (~tr.pipeline /\ ~tr.model /\ ~tr.processor /\ ~tr.is_loaded)

\* C30 (as claimed): a background_transcription loop ends only when
\* recording_active is False and the queue is empty.
C30_LoopExitsOnlyWhenDrained ==
    [][\A t \in Sessions :
          (thr[t].pc # "done" /\ thr'[t].pc = "done") =>
              (~recording_active /\ is_queue_empty)]_vars

\* Every background_transcription loop that was started has ended.
AllLoopsEnded == \A t \in Sessions : thr[t].pc \in {"none", "done"}

\* C31: after stop_recording has returned, and unless another call is
\* made, every transcription loop eventually ends with
\* transcription_active False; and once every loop has ended with the
\* flag False, the flag stays False until the next start_recording.
C31_LoopsEndAfterStop ==
    /\ (fgpc = "idle" /\ lastCall = "stop") ~>
           (fgpc # "idle" \/ (AllLoopsEnded /\ ~transcription_active))
    /\ [][(AllLoopsEnded /\ ~transcription_active /\ AllLoopsEnded')
             => ~transcription_active']_vars

\* After a stop whose wait gave up on a running loop and a second
\* session, every loop has ended, two of them after a call of
\* transcribe_chunk, and the flag is False.
C31_Witness ==
    /\ fgpc = "idle" /\ lastCall = "stop" /\ stopCalls = 2
    /\ AllLoopsEnded /\ ~transcription_active
    /\ Len(transcribed) = 2

\* The background_transcription loops that are running.
RunningLoops == {t \in Sessions : thr[t].pc \notin {"none", "done"}}

\* C32 (as claimed): at most one background_transcription loop is running
\* at any time.
C32_SingleConsumer == Cardinality(RunningLoops) <= 1

\* C33 (as claimed): while a session is open and no call is in progress,
\* the queue and the accumulated samples hold only chunks the callback
\* accepted during this session, the chunks held by the loops and the
\* segments of the running list are of this session, and the time offset
\* of a chunk about to be transcribed is numbered within its session.
C33_NoCrossSessionLeakage ==
    (fgpc = "idle" /\ recording_active) =>
        /\ \A c \in Range(audio_queue) \cup Range(audio_data) :
               meta[c].sess = startCalls
        /\ \A i \in DOMAIN transcription :
               meta[transcription[i].chunk].sess = startCalls
        /\ \A t \in Sessions :
               thr[t].pc = "call" =>
                   /\ meta[thr[t].chunk].sess = startCalls
                   /\ thr[t].offset = meta[thr[t].chunk].k * chunk_duration

\* C34 (as claimed): whenever neither start_recording nor stop_recording
\* is in progress, recording_active equals is_recording.
C34_FlagsAgree ==
    fgpc = "idle" => (recording_active <=> is_recording)

\* C35 (as claimed): after any two calls of join_meeting and
\* leave_meeting, whatever their outcomes, is_joined is True exactly when
\* the bot holds its page and its browser.
C35_JoinedIffConnected ==
    (botN <= 2 /\ botOp # "cleanup" /\ botPrev # "cleanup") =>
        (bot.is_joined <=> (bot.page /\ bot.browser))

\* The start_recording calls that returned True: each of them, and no
\* other, started a background_transcription thread.
SuccessfulStarts == {s \in Sessions : thr[s].pc # "none"}

\* C36 (as claimed): the history never has more records than
\* start_recording calls that returned True, so a stop_recording called
\* with no session open appends nothing.
C36_NoSealWithoutSession ==
    Len(meeting_history) <= Cardinality(SuccessfulStarts)

====
